---- MODULE Spec2Model ----
(***************************************************************************)
(* Verification model of the Roda delivery-drivers chain pipeline.         *)
(*                                                                         *)
(* Part 1: the three blockchain publishers (routes, credits, payments),    *)
(* the account/nonce state of the chain node they talk to, the route       *)
(* checkpoint map in the object store and the published flags in the       *)
(* relational store.                                                       *)
(***************************************************************************)
EXTENDS Integers, Naturals, Sequences, FiniteSets, TLC

(* ----------------------------- bounds --------------------------------- *)
NumRoutes == 2
NumCredits == 1
NumPayments == 2
CreditDebt == 1
MaxAmount == 2

(* ------------------------ program constants --------------------------- *)
PollInterval == 10
WaitTimeout == 300
MaxAttempts == 5
SleepAfterSend == 2

Kinds == {"route", "credit", "payment"}

\* tribu_datapipeline publishes routes; roda_credits_pipeline publishes
\* credits and payments
KindsOf(pl) ==
    CASE pl = "tribu" -> {"route"}
      [] pl = "credits" -> {"credit", "payment"}
      [] OTHER -> Kinds
\* at most two invocations are in progress at a time
Procs == {1, 2}

\* the timeout budgets (seconds) an invocation may be started with
Timeouts == {60, 300}

\* number of polls answered "no receipt yet" before the node's final answer
Leads == {0, 5, 27}

VARIABLES
    chain,        \* records the contract holds: <<kind, id>>
    balance,      \* outstandingBalance per credit id
    txCount,      \* number of mined transactions of the master account
    mempool,      \* accepted, not yet mined transactions of the master account
    receipts,     \* transactions that have a receipt
    s3map,        \* already_published_routes.json: route ids of the checkpoint
    creditFlag,   \* credits with PublishedToCelo<Env> set
    payFlag,      \* payments with PublishedToCelo<Env> set
    lastRun,      \* <<kind, all_success>> of the invocation that finished last
    pipeline,     \* the pipeline whose publishers the harness invokes
    pc,           \* position of each invocation
    inv,          \* local variables of each invocation
    register,     \* poderosita_ids/<family>_id_historic.csv: column poderosita_ruta
    canon,        \* rappi_driver_routes/date=<d>/...: the rows written, per date
    tpc,          \* position of each transform invocation
    tinv,         \* local variables of each transform invocation
    fin,          \* input of the transform step under study
    fout          \* output of the transform step under study

\* state of the transform stage
xformVars == <<register, canon, tpc, tinv, fin, fout>>

\* state of the publishers
pubVars == <<chain, balance, txCount, mempool, receipts, s3map, creditFlag,
             payFlag, lastRun, pc, inv>>

\* what no publisher action touches
otherVars == <<pipeline, xformVars>>

vars == <<chain, balance, txCount, mempool, receipts, s3map, creditFlag,
          payFlag, lastRun, pipeline, pc, inv, xformVars>>

chainVars == <<chain, balance, txCount, mempool, receipts>>
storeVars == <<s3map, creditFlag, payFlag>>

(* ------------------------------ inputs -------------------------------- *)
PaymentCredit(i) == ((i - 1) % NumCredits) + 1
\* the amounts (MONTO) of the payments: the first ones exceed the debt
PaymentAmount(i) == MaxAmount - ((i - 1) % MaxAmount)

Ids(k) == IF k = "route" THEN 1..NumRoutes
          ELSE IF k = "credit" THEN 1..NumCredits ELSE 1..NumPayments

RECURSIVE Ascending(_)
\* the elements of a finite set of integers, in ascending order (view order)
Ascending(S) ==
    IF S = {} THEN <<>>
    ELSE LET m == CHOOSE x \in S : \A y \in S : x <= y
         IN  <<m>> \o Ascending(S \ {m})

NoTx == [kind |-> "none", id |-> 0, nonce |-> 0, amt |-> 0]

(* --------------------------- error messages --------------------------- *)
MSG_MINTED == "execution reverted: ERC721: token already minted"
MSG_EXISTS == "execution reverted: already exists"
MSG_REVERT == "execution reverted"
MSG_PANIC == "Panic error 0x11: Arithmetic operation results in underflow or overflow."
MSG_RPC == "connection error"

\* a test for equality with the needle instead of a test for a substring
Contains_exact(msg, needle) == msg = needle

\* Python's `needle in message` for the needles the publishers look for.
\* The payment publisher lower-cases the message before looking for "revert".
Contains(msg, needle) ==
    CASE needle = "ERC721: token already minted" -> msg = MSG_MINTED
      [] needle = "Panic error 0x11" -> msg = MSG_PANIC
      [] needle = "revert" -> msg \in {MSG_MINTED, MSG_EXISTS, MSG_REVERT}
      [] OTHER -> FALSE

(* ------------------------------- chain -------------------------------- *)
\* web3.eth.get_transaction_count(address): the default block is "latest",
\* so only mined transactions are counted.
get_transaction_count == txCount

\* the node's "pending" count: mined plus still-pending transactions
PendingCount == txCount + Cardinality(mempool)

\* the debt the credit was issued with, instead of what is left of it
get_outstanding_balance_issued(c) == CreditDebt

\* contract.functions.outstandingBalance(id_credit).call()
get_outstanding_balance(c) == balance[c]

\* whether the contract call of tx executes, given the chain state
Executes(tx) ==
    IF tx.kind = "payment"
    THEN /\ <<"credit", PaymentCredit(tx.id)>> \in chain
         /\ <<"payment", tx.id>> \notin chain
         /\ tx.amt <= balance[PaymentCredit(tx.id)]
    ELSE <<tx.kind, tx.id>> \notin chain

\* the messages estimate_gas may raise for tx; empty when the call would execute
RevertMessages(tx) ==
    IF Executes(tx) THEN {}
    ELSE IF tx.kind = "payment"
    THEN IF /\ <<"credit", PaymentCredit(tx.id)>> \in chain
            /\ <<"payment", tx.id>> \notin chain
         THEN {MSG_PANIC} ELSE {MSG_REVERT}
    ELSE {MSG_MINTED, MSG_EXISTS}

\* the node mines the pending transaction whose nonce is next
Mine ==
    /\ \E tx \in mempool :
          /\ tx.nonce = txCount
          /\ mempool' = mempool \ {tx}
          /\ receipts' = receipts \cup {tx}
          /\ txCount' = txCount + 1
          /\ IF Executes(tx)
             THEN /\ chain' = chain \cup {<<tx.kind, tx.id>>}
                  /\ balance' =
                       IF tx.kind = "credit"
                       THEN [balance EXCEPT ![tx.id] = CreditDebt]
                       ELSE IF tx.kind = "payment"
                       THEN [balance EXCEPT ![PaymentCredit(tx.id)] = @ - tx.amt]
                       ELSE balance
             ELSE UNCHANGED <<chain, balance>>
    /\ UNCHANGED <<storeVars, lastRun, otherVars, pc, inv>>

(* ------------------------------- stores -------------------------------- *)
\* a fetch of the unpublished records that does not look at the credit's flag
fetch_records_nofilter(k) ==
    LET keep(i) ==
          CASE k = "route" -> TRUE
            [] k = "credit" -> i \notin creditFlag
            [] OTHER -> i \notin payFlag
        ids == Ascending({i \in Ids(k) : keep(i)})
    IN  [n \in 1..Len(ids) |-> [id |-> ids[n], PublishedToCelo |-> FALSE]]

\* fetch_input_csv_data / fetch_non_published_*_from_airtable
fetch_records(k) ==
    LET keep(i) ==
          CASE k = "route" -> TRUE
            [] k = "credit" -> i \notin creditFlag
            [] OTHER -> i \notin payFlag /\ PaymentCredit(i) \in creditFlag
        flag(i) ==
          CASE k = "route" -> FALSE
            [] k = "credit" -> i \in creditFlag
            [] OTHER -> i \in payFlag
        ids == Ascending({i \in Ids(k) : keep(i)})
    IN  [n \in 1..Len(ids) |-> [id |-> ids[n], PublishedToCelo |-> flag(ids[n])]]

\* the records of kind k that are marked as published
Marked(k) ==
    IF k = "route" THEN s3map ELSE IF k = "credit" THEN creditFlag ELSE payFlag

\* a publisher that starts from an empty checkpoint map
fetch_published_routes_empty == {}

\* the checkpoint map of the processing date, as read from the object store
fetch_published_routes == s3map

(* ----------------------------- invocation ----------------------------- *)
Idle == [kind |-> "none", recs |-> <<>>, idx |-> 1, nonce |-> 0,
         all_success |-> TRUE, published_routes |-> {},
         count_published_routes |-> 0, elapsed |-> 0, timeout |-> 0,
         attempt |-> "first", amount |-> 0, tx |-> NoTx, stop |-> "none",
         outcome |-> "none", log |-> <<>>, marked0 |-> {}, pending0 |-> 0,
         nonce0 |-> 0, prevOk |-> FALSE, overlap |-> FALSE,
         script |-> [lead |-> 0, then |-> "none"], queries |-> 0]

\* handler up to the loop of publish_to_celo: read the input and the
\* checkpoint, derive the account, read the starting nonce.  log, marked0,
\* pending0, nonce0, prevOk, overlap, script and queries record the run for
\* the properties below; no action reads them.
StartFrame(k, T) ==
    [Idle EXCEPT !.kind = k,
                 !.recs = fetch_records(k),
                 !.nonce = get_transaction_count,
                 !.published_routes =
                     IF k = "route" THEN fetch_published_routes ELSE {},
                 !.timeout = T,
                 !.marked0 = Marked(k),
                 !.pending0 = PendingCount,
                 !.nonce0 = get_transaction_count,
                 !.prevOk = (lastRun = <<k, TRUE>>),
                 !.overlap = (\E q \in Procs : pc[q] \in {"loop", "sent", "tail"})]

Start(p, k, T) ==
    /\ pc[p] \in {"idle", "done"}
    /\ k \in KindsOf(pipeline)
    /\ pc' = [pc EXCEPT ![p] = "loop"]
    /\ inv' = [inv EXCEPT ![p] = StartFrame(k, T)]
    /\ UNCHANGED <<chainVars, storeVars, lastRun, otherVars>>

\* an invocation that the harness starts while another may be running
StartOverlapping(p, k, T) ==
    /\ pc[p] = "idle"
    /\ k \in KindsOf(pipeline)
    /\ pc' = [pc EXCEPT ![p] = "loop"]
    /\ inv' = [inv EXCEPT ![p] = StartFrame(k, T)]
    /\ UNCHANGED <<chainVars, storeVars, lastRun, otherVars>>

Frame(p) == inv[p]
Rec(f) == f.recs[f.idx]

\* the transaction publish_to_celo builds for the current record
TxOf(f) ==
    [kind |-> f.kind, id |-> Rec(f).id, nonce |-> f.nonce,
     amt |-> IF f.kind # "payment" THEN 0
             ELSE IF f.attempt = "retry" THEN f.amount
             ELSE PaymentAmount(Rec(f).id)]

Logged(f, ev, msg) ==
    Append(f.log, [pos |-> f.idx, id |-> Rec(f).id, ev |-> ev, msg |-> msg,
                   nonce |-> f.nonce, at |-> f.elapsed, amt |-> TxOf(f).amt,
                   bal |-> IF f.kind = "payment"
                           THEN balance[PaymentCredit(Rec(f).id)] ELSE 0])

\* a publisher that looks at neither the checkpoint map nor the flag
IsPublished_never(f) == FALSE

\* "if route_id in published_routes" / "if is_published_to_celo"
IsPublished(f) ==
    IF f.kind = "route" THEN Rec(f).id \in f.published_routes
    ELSE Rec(f).PublishedToCelo

\* a check against the whole budget instead of nine tenths of it
BudgetExceeded_whole(elapsed, timeout) == elapsed > timeout

\* "if elapsed_time > timeout * 0.9" (route publisher only)
BudgetExceeded(elapsed, timeout) == elapsed * 10 > timeout * 9

\* no publisher compares the elapsed time with the budget
HasBudgetCheck_none(k) == FALSE

\* the publishers whose loop compares the elapsed time with the budget
HasBudgetCheck(k) == k = "route"

\* time.sleep(2) between sending and polling (route and credit publishers)
SleepOf(k) == IF k = "payment" THEN 0 ELSE SleepAfterSend

\* a handler that returns normally whatever publish_to_celo reports
HandlerOutcome_ok(all_success) == "success"

\* the handlers' last lines: return on all_success, raise otherwise
HandlerOutcome(all_success) == IF all_success THEN "success" ELSE "raised"

\* continue with the next record of the batch
Continue(f) == [f EXCEPT !.idx = @ + 1, !.attempt = "first", !.amount = 0, !.tx = NoTx]

InLoop(p) == pc[p] = "loop" /\ Frame(p).idx <= Len(Frame(p).recs)

\* the record passed the skip check and the budget check
Ready(p) ==
    /\ InLoop(p)
    /\ Frame(p).attempt = "retry" \/ ~IsPublished(Frame(p))
    /\ HasBudgetCheck(Frame(p).kind) =>
          ~BudgetExceeded(Frame(p).elapsed, Frame(p).timeout)

\* an update of the relational store that is lost
SetFlag_none(k, id) == UNCHANGED <<creditFlag, payFlag, s3map>>

\* set_credit_as_published / set_payment_as_published
SetFlag(k, id) ==
    /\ creditFlag' = IF k = "credit" THEN creditFlag \cup {id} ELSE creditFlag
    /\ payFlag' = IF k = "payment" THEN payFlag \cup {id} ELSE payFlag
    /\ UNCHANGED s3map

\* the loop is over: publish_to_celo returns
LoopExit(p) ==
    /\ pc[p] = "loop"
    /\ Frame(p).idx > Len(Frame(p).recs)
    /\ pc' = [pc EXCEPT ![p] = "tail"]
    /\ UNCHANGED <<chainVars, storeVars, lastRun, otherVars, inv>>

SkipPublished(p) ==
    /\ InLoop(p)
    /\ Frame(p).attempt = "first"
    /\ IsPublished(Frame(p))
    /\ inv' = [inv EXCEPT ![p] =
                 [Continue(@) EXCEPT !.log = Logged(Frame(p), "skip", "")]]
    /\ UNCHANGED <<chainVars, storeVars, lastRun, otherVars, pc>>

BudgetStop(p) ==
    /\ InLoop(p)
    /\ ~IsPublished(Frame(p))
    /\ HasBudgetCheck(Frame(p).kind)
    /\ BudgetExceeded(Frame(p).elapsed, Frame(p).timeout)
    /\ inv' = [inv EXCEPT ![p] =
                 [@ EXCEPT !.all_success = FALSE, !.stop = "budget",
                           !.log = Logged(Frame(p), "budget", "")]]
    /\ pc' = [pc EXCEPT ![p] = "tail"]
    /\ UNCHANGED <<chainVars, storeVars, lastRun, otherVars>>

\* a classification that takes no revert as a sign of an earlier publication
ErrorClass_nobenign(k, attempt, msg) == IF k = "payment" THEN "failed" ELSE "fatal"

\* a classification that takes every exception as a sign of an earlier
\* publication
ErrorClass_allbenign(k, attempt, msg) == "benign"

\* the classification of an exception raised while publishing a record
ErrorClass(k, attempt, msg) ==
    CASE k \in {"route", "credit"} ->
           IF Contains(msg, "ERC721: token already minted") THEN "benign" ELSE "fatal"
      [] k = "payment" /\ attempt = "retry" -> "failed"
      [] OTHER ->
           IF Contains(msg, "Panic error 0x11") THEN "overflow"
           ELSE IF Contains(msg, "revert") THEN "benign"
           ELSE "failed"

\* the except clauses of publish_to_celo, for an exception with message msg
\* raised at step `at` ("estimate" or "send")
HandleError(p, msg, at) ==
    LET f == Frame(p)
        k == f.kind
        id == Rec(f).id
        cls == ErrorClass(k, f.attempt, msg)
        lg == Logged(f, IF at = "send" THEN "sendfail" ELSE cls, msg)
    IN  CASE cls = "benign" ->
               \* mark the record as published and go on with the next one
               /\ inv' = [inv EXCEPT ![p] =
                     [Continue(f) EXCEPT
                        !.log = lg,
                        !.published_routes =
                            IF k = "route" THEN @ \cup {id} ELSE @,
                        !.count_published_routes =
                            IF k = "route" THEN @ ELSE @ + 1]]
               /\ IF k = "route" THEN UNCHANGED storeVars ELSE SetFlag(k, id)
               /\ UNCHANGED <<pc, lastRun>>
          [] cls = "overflow" ->
               \* re-read the outstanding balance and try once more
               /\ inv' = [inv EXCEPT ![p] =
                     [f EXCEPT !.log = lg, !.attempt = "retry",
                               !.amount = get_outstanding_balance(PaymentCredit(id))]]
               /\ UNCHANGED <<pc, lastRun, storeVars>>
          [] cls = "failed" ->
               \* payment publisher: note the failure, go on with the next one
               /\ inv' = [inv EXCEPT ![p] =
                     [Continue(f) EXCEPT !.log = lg, !.all_success = FALSE]]
               /\ UNCHANGED <<pc, lastRun, storeVars>>
          [] OTHER ->
               \* route publisher: break; credit publisher: raise
               /\ inv' = [inv EXCEPT ![p] =
                     [f EXCEPT !.log = lg, !.all_success = FALSE, !.stop = "error",
                               !.outcome = IF k = "credit" THEN "raised" ELSE @]]
               /\ pc' = [pc EXCEPT ![p] = IF k = "credit" THEN "done" ELSE "tail"]
               /\ lastRun' = IF k = "credit" THEN <<k, FALSE>> ELSE lastRun
               /\ UNCHANGED storeVars

\* estimate_gas raises: the call would revert, or the RPC fails
EstimateFails(p, msg) ==
    /\ Ready(p)
    /\ msg \in RevertMessages(TxOf(Frame(p))) \cup {MSG_RPC}
    /\ HandleError(p, msg, "estimate")
    /\ UNCHANGED <<chainVars, otherVars>>

\* a node that takes no transaction
NodeAccepts_never(tx) == FALSE

\* whether the node takes tx into its pool
NodeAccepts(tx) ==
    /\ tx.nonce >= txCount
    /\ tx \notin mempool

\* send_raw_transaction raises (nonce too low, already known, replacement
\* underpriced, RPC failure)
SendFails(p) ==
    /\ Ready(p)
    /\ RevertMessages(TxOf(Frame(p))) = {}
    /\ HandleError(p, MSG_RPC, "send")
    /\ UNCHANGED <<chainVars, otherVars>>

\* estimate, build, sign and send succeed; the publisher then waits
SendAccepted(p) ==
    LET f == Frame(p)
        tx == TxOf(f)
    IN  /\ Ready(p)
        /\ RevertMessages(tx) = {}
        /\ NodeAccepts(tx)
        /\ mempool' = {t \in mempool : t.nonce # tx.nonce} \cup {tx}
        /\ inv' = [inv EXCEPT ![p] =
                     [f EXCEPT !.tx = tx, !.log = Logged(f, "sent", ""),
                               !.elapsed = @ + SleepOf(f.kind)]]
        /\ pc' = [pc EXCEPT ![p] = "sent"]
        /\ UNCHANGED <<chain, balance, txCount, receipts, storeVars, lastRun, otherVars>>

\* the node's answer to the i-th receipt query (i = 0, 1, ...): "none" (no
\* receipt, no exception) for the first script.lead queries, script.then
\* ("receipt", "notfound", "none" or "error") from then on
Answer(script, i) == IF i < script.lead THEN "none" ELSE script.then

RECURSIVE WaitLoop(_, _, _, _)
\* the while loop of wait_for_transaction_receipt, entered for the i-th time
\* with `attempts` retries used and `waited` seconds since start_time
WaitLoop(script, i, attempts, waited) ==
    LET a == Answer(script, i)
    IN  IF a = "receipt" THEN [receipt |-> TRUE, waited |-> waited, queries |-> i + 1]
        ELSE IF a \in {"notfound", "error"} /\ ~(a = "notfound" /\ attempts < MaxAttempts)
        THEN [receipt |-> FALSE, waited |-> waited, queries |-> i + 1]
        ELSE IF waited > WaitTimeout
        THEN [receipt |-> FALSE, waited |-> waited, queries |-> i + 1]
        ELSE WaitLoop(script, i + 1,
                      IF a = "notfound" THEN attempts + 1 ELSE attempts,
                      waited + PollInterval)

wait_for_transaction_receipt(script) == WaitLoop(script, 0, 0, 0)

Scripts(tx) ==
    {[lead |-> l, then |-> t] :
        l \in Leads,
        t \in {"error"} \cup (IF tx \in receipts THEN {"receipt"} ELSE {"notfound", "none"})}

\* the local nonce after a transaction was confirmed
NextNonce(n) == n + 1

\* the publisher polls for the receipt of the transaction it sent and acts on
\* the result
WaitReceipt(p, script) ==
    LET f == Frame(p)
        k == f.kind
        id == f.tx.id
        r == wait_for_transaction_receipt(script)
        g == [f EXCEPT !.elapsed = @ + r.waited, !.script = script,
                       !.queries = r.queries]
    IN  /\ pc[p] = "sent"
        /\ script \in Scripts(f.tx)
        /\ IF r.receipt
           THEN /\ inv' = [inv EXCEPT ![p] =
                     [Continue(g) EXCEPT
                        !.log = Logged(g, "receipt", ""),
                        !.nonce = NextNonce(f.nonce),
                        !.published_routes = IF k = "route" THEN @ \cup {id} ELSE @,
                        !.count_published_routes = IF k = "route" THEN @ ELSE @ + 1]]
                /\ IF k = "route" THEN UNCHANGED storeVars ELSE SetFlag(k, id)
                /\ pc' = [pc EXCEPT ![p] = "loop"]
           ELSE IF k = "payment"
           THEN /\ inv' = [inv EXCEPT ![p] =
                     [Continue(g) EXCEPT !.log = Logged(g, "noreceipt", ""),
                                         !.all_success = FALSE]]
                /\ pc' = [pc EXCEPT ![p] = "loop"]
                /\ UNCHANGED storeVars
           ELSE /\ inv' = [inv EXCEPT ![p] =
                     [g EXCEPT !.log = Logged(g, "noreceipt", ""),
                               !.all_success = FALSE, !.stop = "receipt"]]
                /\ pc' = [pc EXCEPT ![p] = "tail"]
                /\ UNCHANGED storeVars
        /\ UNCHANGED <<chainVars, lastRun, otherVars>>

\* the handler after publish_to_celo returned: the route publisher uploads
\* the checkpoint map; every handler returns or raises
HandlerTail(p) ==
    LET f == Frame(p)
    IN  /\ pc[p] = "tail"
        /\ s3map' = IF f.kind = "route" THEN f.published_routes ELSE s3map
        /\ inv' = [inv EXCEPT ![p] = [f EXCEPT !.outcome = HandlerOutcome(f.all_success)]]
        /\ pc' = [pc EXCEPT ![p] = "done"]
        /\ lastRun' = <<f.kind, f.all_success>>
        /\ UNCHANGED <<chainVars, creditFlag, payFlag, otherVars>>

InitState ==
    /\ chain = {}
    /\ balance = [c \in 1..NumCredits |-> 0]
    /\ txCount = 0
    /\ mempool = {}
    /\ receipts = {}
    /\ s3map = {}
    /\ creditFlag = {}
    /\ payFlag = {}
    /\ lastRun = <<"none", FALSE>>
    /\ pc = [p \in Procs |-> "idle"]
    /\ inv = [p \in Procs |-> Idle]

\* no row function has been applied
NoOutput == [done |-> FALSE, rows |-> <<>>]

\* no transform invocation is under way
XformIdle ==
    /\ register = <<>>
    /\ canon = <<>>
    /\ tpc = <<>>
    /\ tinv = <<>>
    /\ fin = <<>>
    /\ fout = NoOutput

Init == InitState /\ XformIdle /\ pipeline \in {"tribu", "credits"}

InitConc == InitState /\ XformIdle /\ pipeline = "all"

Step(p) ==
    \/ LoopExit(p)
    \/ SkipPublished(p)
    \/ BudgetStop(p)
    \/ \E msg \in {MSG_MINTED, MSG_EXISTS, MSG_REVERT, MSG_PANIC, MSG_RPC} :
          EstimateFails(p, msg)
    \/ SendFails(p)
    \/ SendAccepted(p)
    \/ \E l \in Leads, t \in {"receipt", "notfound", "none", "error"} :
          WaitReceipt(p, [lead |-> l, then |-> t])
    \/ HandlerTail(p)

\* invocations never overlap
Next ==
    \/ \E k \in Kinds, T \in Timeouts : Start(1, k, T)
    \/ Step(1)
    \/ Mine

Spec == Init /\ [][Next]_vars

\* the harness starts two invocations without waiting for the first to end
NextConc ==
    \/ \E p \in Procs, k \in Kinds, T \in Timeouts :
          StartOverlapping(p, k, T)
    \/ \E p \in Procs : Step(p)
    \/ Mine

SpecConc == InitConc /\ [][NextConc]_vars

(* ========================= the transform stage ========================= *)
\* rows a transform invocation has left when it reaches configure_roda_ids
MaxRows == 2
\* rows the ID register may hold before the harness stops starting runs
MaxRegister == 4

\* extract_last_ID: the value taken for an empty register
FloorId == 100000

TProcs == {1, 2}
Dates == {1, 2}
Devices == {"g1", "g2"}
\* what gps_to_celo_address_map.yaml may hold for a device; Null: no entry
Null == "null"
Addresses == {"0xA", Null}

RECURSIVE SeqsUpTo(_, _)
\* the sequences over S of length at most n
SeqsUpTo(S, n) ==
    IF n = 0 THEN {<<>>}
    ELSE LET shorter == SeqsUpTo(S, n - 1)
         IN  shorter \cup {Append(q, x) : q \in {r \in shorter : Len(r) = n - 1}, x \in S}

SeqRange(q) == {q[i] : i \in 1..Len(q)}

MaxOf(S) == CHOOSE x \in S : \A y \in S : y <= x

RECURSIVE Digits(_)
\* len(str(v)) for a non-negative integer
Digits(v) == IF v < 10 THEN 1 ELSE 1 + Digits(v \div 10)

RECURSIVE Pow10(_)
Pow10(n) == IF n = 0 THEN 1 ELSE 10 * Pow10(n - 1)

\* agregar_prefijo_y_convertir: int(str(prefijo) + str(valor))
agregar_prefijo_y_convertir(valor, prefijo) == prefijo * Pow10(Digits(valor)) + valor

\* the prefix of the one source family modelled ('roda')
Prefijo == 1

extract_last_ID_floor == FloorId

\* extract_last_ID: the greatest poderosita_ruta of the register
extract_last_ID == IF register = <<>> THEN FloorId ELSE MaxOf(SeqRange(register))

\* create_ids: range(last_id + 1, last_id + 1 + len(df))
create_ids(n, last_id) == [i \in 1..n |-> last_id + i]

TIdle == [date |-> 0, rows |-> <<>>, last_id |-> 0, ids |-> <<>>,
          existing |-> <<>>, amap |-> <<>>, known |-> {}, reg0 |-> <<>>,
          canon0 |-> <<>>, why |-> "none", prev |-> "none"]

\* handler up to configure_roda_ids: the input was read, filtered, fixed and
\* split; rows holds the device of each row left.  reg0 records the register
\* canon0 the canonical partitions at the start and prev how the previous
\* invocation of the process ended, for the properties below.
TStartFrame(p, d, rows) ==
    [TIdle EXCEPT !.date = d, !.rows = rows, !.reg0 = register, !.canon0 = canon,
                  !.prev = IF tpc[p] = "failed" THEN tinv[p].why ELSE tpc[p]]

TStart(p, d, rows) ==
    /\ tpc[p] \in {"idle", "done", "failed"}
    /\ Len(register) + Len(rows) <= MaxRegister
    /\ tpc' = [tpc EXCEPT ![p] = "ids"]
    /\ tinv' = [tinv EXCEPT ![p] = TStartFrame(p, d, rows)]
    /\ UNCHANGED <<pubVars, pipeline, register, canon, fin, fout>>

\* an invocation started while another one may be running, for another date
TStartOverlapping(p, d, rows) ==
    /\ tpc[p] = "idle"
    /\ \A q \in TProcs : tpc[q] # "idle" => tinv[q].date # d
    /\ Len(register) + Len(rows) <= MaxRegister
    /\ tpc' = [tpc EXCEPT ![p] = "ids"]
    /\ tinv' = [tinv EXCEPT ![p] = TStartFrame(p, d, rows)]
    /\ UNCHANGED <<pubVars, pipeline, register, canon, fin, fout>>

\* configure_roda_ids: extract_last_ID reads the register, create_ids numbers
\* the rows
ExtractAndCreate(p) ==
    /\ tpc[p] = "ids"
    /\ tinv' = [tinv EXCEPT ![p] =
                  [tinv[p] EXCEPT !.last_id = extract_last_ID,
                                  !.ids = create_ids(Len(tinv[p].rows), extract_last_ID)]]
    /\ tpc' = [tpc EXCEPT ![p] = "update"]
    /\ UNCHANGED <<pubVars, pipeline, register, canon, fin, fout>>

\* update_csv_in_s3: read the register again
ReadExisting(p) ==
    /\ tpc[p] = "update"
    /\ tinv' = [tinv EXCEPT ![p] = [tinv[p] EXCEPT !.existing = register]]
    /\ tpc' = [tpc EXCEPT ![p] = "put"]
    /\ UNCHANGED <<pubVars, pipeline, register, canon, fin, fout>>

\* update_csv_in_s3: put_object of what was read with the new rows appended
PutRegister(p) ==
    /\ tpc[p] = "put"
    /\ register' = tinv[p].existing \o tinv[p].ids
    /\ tpc' = [tpc EXCEPT ![p] = "address"]
    /\ UNCHANGED <<pubVars, pipeline, canon, tinv, fin, fout>>

\* an S3 call of configure_roda_ids raises
S3Fails(p) ==
    /\ tpc[p] \in {"ids", "update", "put"}
    /\ tpc' = [tpc EXCEPT ![p] = "failed"]
    /\ tinv' = [tinv EXCEPT ![p] = [tinv[p] EXCEPT !.why = "s3"]]
    /\ UNCHANGED <<pubVars, pipeline, register, canon, fin, fout>>


\* the contents gps_to_celo_address_map.yaml may have
AddressMaps == [Devices -> Addresses]

\* add_celo_contract_address: df['k_dispositivo'].map(celo_address_map), one
\* record per row with the ID configure_roda_ids gave it
WithAddress(f, amap) ==
    [i \in 1..Len(f.rows) |-> [gps |-> f.rows[i], addr |-> amap[f.rows[i]], id |-> f.ids[i]]]

\* get_missing_celo_addresses: the rows whose celo_address is null
MissingRow(r) == r.addr = Null

get_missing_celo_addresses(df) == SelectSeq(df, MissingRow)

\* get_known_unassigned_devices handing back the whole list
get_known_unassigned_devices_all(routes_missing_celo, known) == known

\* get_known_unassigned_devices: the devices of the list that are also
\* missing an address in this run
get_known_unassigned_devices(routes_missing_celo, known) ==
    {g \in known : \E i \in 1..Len(routes_missing_celo) : routes_missing_celo[i].gps = g}

\* filter_out_known_unassigned_devices
filter_out_known_unassigned_devices(df, known_list) ==
    LET Keep(r) == r.gps \notin known_list IN SelectSeq(df, Keep)

\* the rows still missing an address once the known unassigned devices are
\* taken out (handler, routes_missing_celo at the emptiness test)
Unresolved(f, amap, known) ==
    LET missing == get_missing_celo_addresses(WithAddress(f, amap))
    IN  filter_out_known_unassigned_devices(missing, get_known_unassigned_devices(missing, known))

\* assign_guajira_or_roda_prefix on one row
assign_prefix(r) == [r EXCEPT !.id = agregar_prefijo_y_convertir(r.id, Prefijo)]

\* the rows the handler uploads
Output(f, amap, known) ==
    LET df == WithAddress(f, amap)
        known_list == get_known_unassigned_devices(get_missing_celo_addresses(df), known)
        kept == filter_out_known_unassigned_devices(df, known_list)
    IN  [i \in 1..Len(kept) |-> assign_prefix(kept[i])]

\* handler: some device has no address and is not known as unassigned; raise
AddressMissing(p) ==
    /\ tpc[p] = "address"
    /\ \E amap \in AddressMaps, known \in SUBSET Devices :
          /\ Unresolved(tinv[p], amap, known) # <<>>
          /\ tinv' = [tinv EXCEPT ![p] = [tinv[p] EXCEPT !.amap = amap, !.known = known,
                                                         !.why = "address"]]
    /\ tpc' = [tpc EXCEPT ![p] = "failed"]
    /\ UNCHANGED <<pubVars, pipeline, register, canon, fin, fout>>

\* handler: nothing unresolved; filter, prefix, format and upload the partition
Upload(p) ==
    /\ tpc[p] = "address"
    /\ \E amap \in AddressMaps, known \in SUBSET Devices :
          /\ Unresolved(tinv[p], amap, known) = <<>>
          /\ tinv' = [tinv EXCEPT ![p] = [tinv[p] EXCEPT !.amap = amap, !.known = known]]
          /\ canon' = (tinv[p].date :> Output(tinv[p], amap, known)) @@ canon
    /\ tpc' = [tpc EXCEPT ![p] = "done"]
    /\ UNCHANGED <<pubVars, pipeline, register, fin, fout>>

TransformStep(p) ==
    \/ ExtractAndCreate(p)
    \/ ReadExisting(p)
    \/ PutRegister(p)
    \/ S3Fails(p)
    \/ AddressMissing(p)
    \/ Upload(p)

InitIds ==
    /\ InitState
    /\ pipeline = "transform"
    /\ register = <<>>
    /\ canon = <<>>
    /\ tpc = [p \in TProcs |-> "idle"]
    /\ tinv = [p \in TProcs |-> TIdle]
    /\ fin = <<>>
    /\ fout = NoOutput

\* transform runs one after the other
NextIds ==
    \/ \E d \in Dates, rows \in SeqsUpTo(Devices, MaxRows) : TStart(1, d, rows)
    \/ TransformStep(1)

SpecIds == InitIds /\ [][NextIds]_vars

\* transform runs for different dates, side by side
NextIdsConc ==
    \/ \E p \in TProcs, d \in Dates, rows \in SeqsUpTo(Devices, MaxRows) :
          TStartOverlapping(p, d, rows)
    \/ \E p \in TProcs : TransformStep(p)

SpecIdsConc == InitIds /\ [][NextIdsConc]_vars

(* ================== the row functions of the transform ================= *)
\* Distances are in kilometres and times in ticks of the timestamp resolution;
\* a fraction is a record [num, den] with den > 0.
SplitDistances == {5, 12, 15, 24, 30}
AvgDistances == {8, 10}
MaxDistances == {12, 20}
StartTimes == {0, 60}
\* o_fecha_final - o_fecha_inicial of the rows the duration filter lets through
Durations == {7, 1800}
\* np.random.uniform(0.8, 1.2), in tenths
Variations == {8, 10, 12}

RECURSIVE SumSeq(_)
SumSeq(q) == IF q = <<>> THEN 0 ELSE Head(q) + SumSeq(Tail(q))

\* the nearest integer to n / d  (pd.Timedelta keeps whole ticks)
RoundDiv(n, d) == (2 * n + d) \div (2 * d)

\* adjust_route_distribution: real_routes
adjust_route_distribution(route_distance, max_distance, avg_distance) ==
    IF route_distance > max_distance THEN route_distance \div avg_distance ELSE 1

\* normalized_durations with the variations taken as they come
normalized_durations_raw(duration_variations, total_duration_seconds) ==
    [i \in 1..Len(duration_variations) |->
        [num |-> duration_variations[i] * total_duration_seconds, den |-> 10]]

\* expand_routes_based_on_real_routes:
\* (duration_variations / duration_variations.sum()) * total_duration_seconds
normalized_durations(duration_variations, total_duration_seconds) ==
    [i \in 1..Len(duration_variations) |->
        [num |-> duration_variations[i] * total_duration_seconds,
         den |-> SumSeq(duration_variations)]]

RECURSIVE EndTime(_, _, _)
\* end_time of the i-th derived route: the start plus the Timedeltas so far
EndTime(start, durs, i) ==
    IF i = 0 THEN start
    ELSE EndTime(start, durs, i - 1) + RoundDiv(durs[i].num, durs[i].den)

\* expand_routes_based_on_real_routes, for one row and one draw of variations
expand_routes_based_on_real_routes(row, duration_variations) ==
    LET total_duration_seconds == row.end - row.start
        num_routes == Len(duration_variations)
        durs == normalized_durations(duration_variations, total_duration_seconds)
    IN  [i \in 1..num_routes |->
            [start |-> EndTime(row.start, durs, i - 1),
             end |-> IF i = num_routes THEN row.end ELSE EndTime(row.start, durs, i),
             \* row['f_distancia'] * (duration_seconds / total_duration_seconds)
             dist |-> [num |-> row.dist * durs[i].num,
                       den |-> durs[i].den * total_duration_seconds]]]

\* the rows and parameters apply_split_routes is given
SplitInputs ==
    {[dist |-> d, start |-> t, end |-> t + l, avg |-> a, max |-> m] :
        d \in SplitDistances, t \in StartTimes, l \in Durations,
        a \in AvgDistances, m \in MaxDistances}

\* apply_split_routes on the row fin
ApplySplit ==
    /\ pipeline = "split"
    /\ ~fout.done
    /\ \E vs \in SeqsUpTo(Variations, 3) :
          /\ Len(vs) = adjust_route_distribution(fin.dist, fin.max, fin.avg)
          /\ fout' = [done |-> TRUE, rows |-> expand_routes_based_on_real_routes(fin, vs)]
    /\ UNCHANGED <<pubVars, pipeline, register, canon, tpc, tinv, fin>>

InitSplit ==
    /\ InitState
    /\ pipeline = "split"
    /\ register = <<>>
    /\ canon = <<>>
    /\ tpc = <<>>
    /\ tinv = <<>>
    /\ fin \in SplitInputs
    /\ fout = NoOutput

NextSplit == ApplySplit

SpecSplit == InitSplit /\ [][NextSplit]_vars

\* fix_distance_by_max_per_hour: distances in kilometres, times in seconds
FixDistances == {0, 10, 25, 30}
FixSeconds == {0, 1800, 3600, 5000}
MaxPerHour == {18, 25}

FixRows == {[dist |-> d, start |-> 0, end |-> l] : d \in FixDistances, l \in FixSeconds}

\* the dataframes and parameter fix_distance_by_max_per_hour is given
FixInputs == {[rows |-> q, max_distance_per_hour |-> m] : q \in SeqsUpTo(FixRows, 2), m \in MaxPerHour}

\* durationMinutes: total_seconds() / 60
durationMinutes(r) == [num |-> r.end - r.start, den |-> 60]

\* maxExpectedDistance with the minutes taken for hours
maxExpectedDistance_minutes(r, max_distance_per_hour) ==
    [num |-> durationMinutes(r).num * max_distance_per_hour, den |-> durationMinutes(r).den]

\* maxExpectedDistance: (durationMinutes / 60) * max_distance_per_hour
maxExpectedDistance(r, max_distance_per_hour) ==
    [num |-> durationMinutes(r).num * max_distance_per_hour, den |-> durationMinutes(r).den * 60]

\* fix_distance_by_max_per_hour: rows above their maxExpectedDistance get it
\* as f_distancia, every row stays
fix_distance_by_max_per_hour(df, max_distance_per_hour) ==
    [i \in 1..Len(df) |->
        LET cap == maxExpectedDistance(df[i], max_distance_per_hour)
        IN  [start |-> df[i].start, end |-> df[i].end,
             dist |-> IF df[i].dist * cap.den > cap.num
                      THEN cap
                      ELSE [num |-> df[i].dist, den |-> 1]]]

ApplyFix ==
    /\ pipeline = "fix"
    /\ ~fout.done
    /\ fout' = [done |-> TRUE,
                rows |-> fix_distance_by_max_per_hour(fin.rows, fin.max_distance_per_hour)]
    /\ UNCHANGED <<pubVars, pipeline, register, canon, tpc, tinv, fin>>

InitFix ==
    /\ InitState
    /\ pipeline = "fix"
    /\ register = <<>>
    /\ canon = <<>>
    /\ tpc = <<>>
    /\ tinv = <<>>
    /\ fin \in FixInputs
    /\ fout = NoOutput

NextFix == ApplyFix

SpecFix == InitFix /\ [][NextFix]_vars

(* ======================== the social score ============================= *)
\* The contact frame handed to afectaciones_por_referidos: per client the
\* referrer ('ID Referidor Nocode', NoReferrer for NaN), 'Tiene Credito
\* Perdido', whether '¿Referido RODA?' is 'Sí', whether a credit of the client
\* is 'EN PROCESO', whether its latest one is in arrears, and Puntaje_Final.
\* Adjustments are in hundredths.
Clients == {1, 2, 3}
NoReferrer == 0
RawScores == {500, 900}
\* UMBRAL_BONUS, INCREMENTO_POR_REFERIDO, DECREMENTO_POR_REFERIDO as configured
\* for the run, and the fixed penalty of calculo_ajustes
UMBRAL_BONUS == 20
INCREMENTO_POR_REFERIDO == 5
DECREMENTO_POR_REFERIDO == 10
PenaltyAfectado == 50

\* the referral forests: a client is referred by none or by an earlier client
Referrers == {f \in [Clients -> Clients \cup {NoReferrer}] : \A c \in Clients : f[c] < c}

SocialInputs ==
    {[referidor |-> f, perdido |-> l, roda |-> r, en_proceso |-> e,
      atraso |-> [c \in Clients |-> a], puntaje |-> [c \in Clients |-> sc]] :
        f \in Referrers, l \in [Clients -> BOOLEAN], r \in [Clients -> BOOLEAN],
        e \in [Clients -> BOOLEAN], a \in BOOLEAN, sc \in RawScores}

\* identificacion_referidores_perdidos finding nobody
identificacion_referidores_perdidos_none(df, c) == FALSE

\* identificacion_referidores_perdidos: REFERIDOR_Perdido of client c
identificacion_referidores_perdidos(df, c) ==
    /\ df.referidor[c] # NoReferrer
    /\ df.referidor[c] \in DOMAIN df.referidor
    /\ df.perdido[df.referidor[c]]

\* get_info_referido: the referred clients of id_referidor that have a credit
\* in process and are marked as Roda referrals
get_info_referido(id_referidor, df) ==
    {r \in DOMAIN df.referidor :
        df.referidor[r] = id_referidor /\ df.en_proceso[r] /\ df.roda[r]}

\* ajuste_x_referidos_atrasados granting the bonus up to the threshold included
ajuste_x_referidos_atrasados_le(id_referidor, df) ==
    LET aux == get_info_referido(id_referidor, df)
        clientes_con_atraso == Cardinality({r \in aux : df.atraso[r]})
        total_referidos == Cardinality(aux)
        bonus == total_referidos > 0 => clientes_con_atraso * 100 <= UMBRAL_BONUS * total_referidos
    IN  INCREMENTO_POR_REFERIDO * Cardinality({r \in aux : bonus /\ df.puntaje[r] > 800})
          - DECREMENTO_POR_REFERIDO * clientes_con_atraso

\* ajuste_x_referidos_atrasados: what is added to ajuste_calculado
ajuste_x_referidos_atrasados(id_referidor, df) ==
    LET aux == get_info_referido(id_referidor, df)
        clientes_con_atraso == Cardinality({r \in aux : df.atraso[r]})
        total_referidos == Cardinality(aux)
        bonus == total_referidos > 0 => clientes_con_atraso * 100 < UMBRAL_BONUS * total_referidos
    IN  INCREMENTO_POR_REFERIDO * Cardinality({r \in aux : bonus /\ df.puntaje[r] > 800})
          - DECREMENTO_POR_REFERIDO * clientes_con_atraso

\* calculo_ajustes: REFERIDO_Perdido of client c
REFERIDO_Perdido(df, c) == \E r \in get_info_referido(c, df) : df.perdido[r]

\* calculo_ajustes: Afectado_x_red of client c
Afectado_x_red(df, c) ==
    \E k \in DOMAIN df.referidor :
        c \in get_info_referido(k, df) /\ ~df.perdido[c] /\ REFERIDO_Perdido(df, k)

\* calculo_ajustes: ajuste_calculado of client c once every client was visited
calculo_ajustes(df, c) ==
    ajuste_x_referidos_atrasados(c, df)
      - PenaltyAfectado * Cardinality({k \in DOMAIN df.referidor :
            c \in get_info_referido(k, df) /\ ~df.perdido[c] /\ REFERIDO_Perdido(df, k)})

\* Series.clip(lower, upper)
Clip(x, lower, upper) == IF x < lower THEN lower ELSE IF x > upper THEN upper ELSE x

\* afectaciones_por_referidos: Puntaje_Final_Ajustado of client c, in hundredths
Puntaje_Final_Ajustado(df, c) ==
    Clip(IF \/ REFERIDO_Perdido(df, c)
            \/ df.perdido[c]
            \/ identificacion_referidores_perdidos(df, c)
         THEN 0
         ELSE df.puntaje[c] * 100 + df.puntaje[c] * calculo_ajustes(df, c),
         0, 1000 * 100)

\* afectaciones_por_referidos on the frame fin
afectaciones_por_referidos ==
    /\ pipeline \in {"social", "bonus"}
    /\ ~fout.done
    /\ fout' = [done |-> TRUE,
                rows |-> [c \in DOMAIN fin.referidor |->
                           [Puntaje_Final_Ajustado |-> Puntaje_Final_Ajustado(fin, c),
                            ajuste_calculado |-> calculo_ajustes(fin, c),
                            Afectado_x_red |-> Afectado_x_red(fin, c)]]]
    /\ UNCHANGED <<pubVars, pipeline, register, canon, tpc, tinv, fin>>

InitSocial ==
    /\ InitState
    /\ pipeline = "social"
    /\ register = <<>>
    /\ canon = <<>>
    /\ tpc = <<>>
    /\ tinv = <<>>
    /\ fin \in SocialInputs
    /\ fout = NoOutput

NextSocial == afectaciones_por_referidos

SpecSocial == InitSocial /\ [][NextSocial]_vars

\* a referrer and the five clients it referred
Referidor == 1
Referidos == {2, 3, 4, 5, 6}

\* frames of one referrer with five referred clients, none with a lost
\* credit: any of them in arrears, any with a raw score above 800, one
\* possibly without credit in process, one possibly not marked 'Sí'
BonusInputs ==
    {[referidor |-> [c \in {Referidor} \cup Referidos |->
                        IF c = Referidor THEN NoReferrer ELSE Referidor],
      perdido |-> [c \in {Referidor} \cup Referidos |-> FALSE],
      roda |-> [c \in {Referidor} \cup Referidos |-> c = 6 => r],
      en_proceso |-> [c \in {Referidor} \cup Referidos |-> c = 5 => e],
      atraso |-> [c \in {Referidor} \cup Referidos |-> c \in late],
      puntaje |-> [c \in {Referidor} \cup Referidos |-> IF c \in high THEN 900 ELSE 800]] :
        r \in BOOLEAN, e \in BOOLEAN, late \in SUBSET Referidos, high \in SUBSET Referidos}

InitBonus ==
    /\ InitState
    /\ pipeline = "bonus"
    /\ register = <<>>
    /\ canon = <<>>
    /\ tpc = <<>>
    /\ tinv = <<>>
    /\ fin \in BonusInputs
    /\ fout = NoOutput

SpecBonus == InitBonus /\ [][NextSocial]_vars

(* ======================== the credit score ============================= *)
\* credit rows of one client handed to calcular_puntajes at most
MaxCreditRows == 2

limites_atraso_promedio == <<0, 7, 15, 26, 31, 60, 90>>
puntajes_atraso_promedio == <<1000, 800, 600, 400, 100, 0>>
limites_atraso_acumulado == <<0, 20, 40, 69, 180, 250>>
puntajes_atraso_acumulado == <<1000, 700, 400, 200, 0>>
bonus_value == 50

\* Dias_Atraso_Prom and Dias_Atraso_Acum of the credits drawn
AvgDelays == {5, 7, 20}
CumDelays == {10, 50}

\* a credit row: the delays, Num_Acuerdos_Cumplidos over Cantidad acuerdos
\* (one agreement, kept or not) and the rank of 'Fecha desembolso'
CreditRowsOf(fecha) ==
    {[prom |-> a, acum |-> c, cumplidos |-> k, cantidad |-> 1, fecha |-> fecha] :
        a \in AvgDelays, c \in CumDelays, k \in {0, 1}}

\* the credit frames of one client, rows in the order Airtable returns them,
\* disbursement dates pairwise different
CreditFrames ==
    {q \in SeqsUpTo(UNION {CreditRowsOf(f) : f \in 1..MaxCreditRows}, MaxCreditRows) :
        \A i, j \in 1..Len(q) : i # j => q[i].fecha # q[j].fecha}

\* asignar_puntaje with the limit counted into the range below it
asignar_puntaje_le(valor, limites, puntajes) ==
    IF \E i \in 2..Len(limites) : valor <= limites[i]
    THEN puntajes[(CHOOSE i \in 2..Len(limites) :
                     valor <= limites[i] /\ \A j \in 2..(i - 1) : ~(valor <= limites[j])) - 1]
    ELSE puntajes[Len(puntajes)]

\* asignar_puntajes_personalizados.asignar_puntaje: the score of the first
\* limit (from the second on) the value is below, else the last score
asignar_puntaje(valor, limites, puntajes) ==
    IF \E i \in 2..Len(limites) : valor < limites[i]
    THEN puntajes[(CHOOSE i \in 2..Len(limites) :
                     valor < limites[i] /\ \A j \in 2..(i - 1) : ~(valor < limites[j])) - 1]
    ELSE puntajes[Len(puntajes)]

\* calcular_puntajes: Puntaje_Del_Credito before the bonus, doubled (the mean
\* of the two scores is taken over 2)
Puntaje_Del_Credito2(r) ==
    asignar_puntaje(r.prom, limites_atraso_promedio, puntajes_atraso_promedio)
      + asignar_puntaje(r.acum, limites_atraso_acumulado, puntajes_atraso_acumulado)

\* asignar_bonus_acuerdos: Puntaje_Del_Credito with the bonus, doubled
asignar_bonus_acuerdos(r) ==
    IF r.cantidad # 0 /\ r.cumplidos = r.cantidad /\ Puntaje_Del_Credito2(r) # 0
    THEN Puntaje_Del_Credito2(r) + 2 * bonus_value
    ELSE Puntaje_Del_Credito2(r)

\* ponderar_puntajes: weights 1..n over their sum, applied to the list as it
\* comes; a fraction [num, den]
ponderar_puntajes(puntajes) ==
    LET n == Len(puntajes)
    IN  IF n = 0 THEN [num |-> 0, den |-> 1]
        ELSE IF n = 1 THEN [num |-> puntajes[1], den |-> 1]
        ELSE [num |-> SumSeq([i \in 1..n |-> i * puntajes[i]]),
              den |-> SumSeq([i \in 1..n |-> i])]

\* calcular_puntajes on the credit rows fin of one client: the doubled
\* per-credit scores and the doubled Puntaje_Ponderado_Creditos
calcular_puntajes ==
    /\ pipeline = "score"
    /\ ~fout.done
    /\ LET puntajes == [i \in 1..Len(fin) |-> asignar_bonus_acuerdos(fin[i])]
       IN  fout' = [done |-> TRUE, rows |-> puntajes, W |-> ponderar_puntajes(puntajes)]
    /\ UNCHANGED <<pubVars, pipeline, register, canon, tpc, tinv, fin>>

InitScore ==
    /\ InitState
    /\ pipeline = "score"
    /\ register = <<>>
    /\ canon = <<>>
    /\ tpc = <<>>
    /\ tinv = <<>>
    /\ fin \in CreditFrames
    /\ fout = NoOutput

NextScore == calcular_puntajes

SpecScore == InitScore /\ [][NextScore]_vars

(* ======================= properties of the publishers ================== *)
Started(p) == pc[p] # "idle"
Entries(p) == 1..Len(inv[p].log)
Entry(p, i) == inv[p].log[i]

\* accepted by the node
IsSent(e) == e.ev = "sent"
\* handed to send_raw_transaction, accepted or not
IsCall(e) == e.ev \in {"sent", "sendfail"}

\* the records the invocation holds as published right now
MarkedNow(p) ==
    IF inv[p].kind = "route" THEN inv[p].published_routes ELSE Marked(inv[p].kind)

\* C1: a publisher run that starts from the checkpoint map / published flags
\* left by the previous run hands no transaction to the node for a record that
\* was already marked, never unmarks a record, and, when the previous run of
\* the same publisher over the same input ended with all_success, skips every
\* record and leaves the set of published records as it found it.
C1_IdempotentRerun ==
    \A p \in Procs : Started(p) =>
       /\ \A i \in Entries(p) : IsCall(Entry(p, i)) => Entry(p, i).id \notin inv[p].marked0
       /\ inv[p].marked0 \subseteq MarkedNow(p)
       /\ inv[p].prevOk =>
             /\ \A i \in Entries(p) : Entry(p, i).ev = "skip"
             /\ MarkedNow(p) = inv[p].marked0
             /\ pc[p] = "done" =>
                   Marked(inv[p].kind) = inv[p].marked0 /\ inv[p].all_success

\* a second route run after a complete first one has skipped every route
C1_Witness ==
    /\ pc[1] = "done"
    /\ inv[1].kind = "route"
    /\ inv[1].prevOk
    /\ inv[1].marked0 = 1..NumRoutes
    /\ Len(inv[1].log) = NumRoutes

\* C2: transactions go out only for records not marked as published, and the
\* first transaction of a batch carries the account's pending transaction
\* count (mined plus still pending) as it was at batch start.
C2_FirstNonceIsPendingCount ==
    \A p \in Procs : Started(p) =>
       /\ \A i \in Entries(p) : IsCall(Entry(p, i)) => Entry(p, i).id \notin inv[p].marked0
       /\ \A i \in Entries(p) :
             (IsCall(Entry(p, i)) /\ \A j \in 1..(i - 1) : ~IsCall(Entry(p, j)))
                => Entry(p, i).nonce = inv[p].pending0

\* C3: of two transactions the node accepted in one batch, the later one
\* belongs to a later input record and carries a strictly greater nonce.
C3_OrderedNonces ==
    \A p \in Procs : \A i, j \in Entries(p) :
       (i < j /\ IsSent(Entry(p, i)) /\ IsSent(Entry(p, j))) =>
          /\ Entry(p, i).pos < Entry(p, j).pos
          /\ Entry(p, i).nonce < Entry(p, j).nonce

\* C4: a transaction is sent only after the receipt of the previous one of the
\* batch was obtained; once a receipt was not obtained, the batch sends nothing
\* more.
C4_WaitsForReceipt ==
    \A p \in Procs : \A i, j \in Entries(p) :
       (i < j /\ IsSent(Entry(p, i)) /\ IsCall(Entry(p, j))) =>
          /\ Entry(p, i + 1).ev = "receipt"
          /\ Entry(p, i + 1).pos = Entry(p, i).pos

\* C5: two invocations that overlap and read the same starting nonce never get
\* two different transactions accepted under the same nonce.
C5_NoSharedNonce ==
    \A p, q \in Procs :
       (/\ p # q
        /\ inv[q].overlap
        /\ inv[p].nonce0 = inv[q].nonce0
        /\ inv[p].pending0 = inv[p].nonce0
        /\ inv[q].pending0 = inv[q].nonce0) =>
          \A i \in Entries(p), j \in Entries(q) :
             (IsSent(Entry(p, i)) /\ IsSent(Entry(q, j)) /\
              Entry(p, i).nonce = Entry(q, j).nonce)
                => (inv[p].kind = inv[q].kind /\ Entry(p, i).id = Entry(q, j).id)

\* the entries that stand for work on a record the skip check let through
IsWork(e) == e.ev \notin {"skip", "budget", "receipt", "noreceipt"}

C8_BudgetStopIsNotFatal ==
    \A p \in Procs : (pc[p] = "done" /\ inv[p].stop = "budget") =>
       inv[p].outcome # "raised"

\* C8: an invocation returns normally exactly when all_success holds and
\* raises otherwise; one that stopped because the budget ran out raises, as
\* one stopped by an error does, after the checkpoint map was written.
C8_BudgetStopRaises ==
    \A p \in Procs : pc[p] = "done" =>
       /\ inv[p].outcome \in {"success", "raised"}
       /\ inv[p].outcome = "raised" <=> ~inv[p].all_success
       /\ inv[p].stop \in {"budget", "error", "receipt"} => inv[p].outcome = "raised"
       /\ (inv[p].stop = "budget" /\ inv[p].kind = "route") =>
             s3map = inv[p].published_routes

\* a route run that stopped for the budget, with no error, and raised
C8_Witness ==
    /\ pc[1] = "done"
    /\ inv[1].stop = "budget"
    /\ inv[1].outcome = "raised"
    /\ \A i \in Entries(1) : Entry(1, i).ev \in {"skip", "sent", "receipt", "budget"}
    /\ \E i \in Entries(1) : Entry(1, i).ev = "receipt"

\* the invocation is at entry i's record, or past it, with entry i's nonce, and
\* nothing has stopped it
GoesOnAfter(p, i) ==
    IF i < Len(inv[p].log)
    THEN /\ Entry(p, i + 1).pos = Entry(p, i).pos + 1
         /\ Entry(p, i + 1).nonce = Entry(p, i).nonce
    ELSE /\ inv[p].idx = Entry(p, i).pos + 1
         /\ inv[p].nonce = Entry(p, i).nonce
         /\ inv[p].stop = "none"

IsRetry(p, i) ==
    /\ i > 1
    /\ Entry(p, i - 1).ev = "overflow"
    /\ Entry(p, i - 1).pos = Entry(p, i).pos

\* the second attempt at entry i did not publish the payment
RetryFailed(p, i) ==
    /\ IsRetry(p, i)
    /\ \/ Entry(p, i).ev \in {"failed", "sendfail"}
       \/ /\ Entry(p, i).ev = "sent"
          /\ i < Len(inv[p].log)
          /\ Entry(p, i + 1).ev = "noreceipt"

IsCounted(e) == e.ev \in {"receipt", "benign"}

IsFailure(e) == e.ev \in {"fatal", "failed", "sendfail", "noreceipt"}

\* C12: in every publisher an error on a record that is neither a benign
\* revert nor the recoverable overflow ends the batch: nothing is handed to the
\* node for a later record, and the invocation ends by raising.
C12_ErrorAbortsBatch ==
    \A p \in Procs : Started(p) =>
       /\ \A i, j \in Entries(p) :
             (i < j /\ IsFailure(Entry(p, i))) => ~IsCall(Entry(p, j))
       /\ (pc[p] = "done" /\ \E i \in Entries(p) : IsFailure(Entry(p, i))) =>
             inv[p].outcome = "raised"

\* C13: a payment is handed to the node, is in the node's pool or on its
\* record, and is flagged as published, only when the published flag of its
\* credit is set.
C13_PaymentsFollowCredit ==
    /\ \A i \in payFlag : PaymentCredit(i) \in creditFlag
    /\ \A tx \in mempool \cup receipts :
          tx.kind = "payment" => PaymentCredit(tx.id) \in creditFlag
    /\ \A p \in Procs : (Started(p) /\ inv[p].kind = "payment") =>
          /\ \A n \in 1..Len(inv[p].recs) :
                PaymentCredit(inv[p].recs[n].id) \in creditFlag
          /\ \A i \in Entries(p) :
                IsCall(Entry(p, i)) => PaymentCredit(Entry(p, i).id) \in creditFlag

\* a payment was confirmed and flagged, its credit being flagged
C13_Witness ==
    /\ inv[1].kind = "payment"
    /\ \E i \in Entries(1) :
          /\ Entry(1, i).ev = "receipt"
          /\ Entry(1, i).id \in payFlag
          /\ PaymentCredit(Entry(1, i).id) \in creditFlag
          /\ <<"payment", Entry(1, i).id>> \in chain

(* ==================== properties of the transform stage ================ *)
IsPrefix(a, b) == Len(a) <= Len(b) /\ \A i \in 1..Len(a) : a[i] = b[i]

\* the route IDs of the canonical partitions c, one per emitted row
EmittedIds(c) == UNION {{c[d][i].id : i \in 1..Len(c[d])} : d \in DOMAIN c}

\* the rows of the canonical partitions c, as <<date, position>>
EmittedRows(c) == UNION {{<<d, i>> : i \in 1..Len(c[d])} : d \in DOMAIN c}

\* the invocation of p has its IDs in the register
Registered(p) == tpc[p] \in {"address", "done"} \/ (tpc[p] = "failed" /\ tinv[p].why = "address")

\* C14: when transform runs of one family follow one another, the register
\* lists the IDs in strictly increasing order, the IDs a run puts into the
\* register are greater than every ID registered or emitted before the run
\* (also when the run before failed at the address check, after its IDs were
\* registered), no ID is emitted for two rows, and the register only grows.
C14_IdsOnlyGrow ==
    /\ [](/\ \A i, j \in 1..Len(register) : i < j => register[i] < register[j]
          /\ Registered(1) =>
                \A i \in 1..Len(tinv[1].ids) :
                    /\ \A r \in SeqRange(tinv[1].reg0) : r < tinv[1].ids[i]
                    /\ \A e \in EmittedIds(tinv[1].canon0) :
                          e < agregar_prefijo_y_convertir(tinv[1].ids[i], Prefijo)
                    /\ \E k \in 1..Len(register) : register[k] = tinv[1].ids[i]
          /\ \A a, b \in EmittedRows(canon) :
                a # b => canon[a[1]][a[2]].id # canon[b[1]][b[2]].id)
    /\ [][IsPrefix(register, register')]_register

\* a run registered and emitted IDs after a run that failed at the address
\* check with its own IDs registered
C14_Witness ==
    /\ tpc[1] = "done"
    /\ tinv[1].prev = "address"
    /\ tinv[1].ids # <<>>
    /\ tinv[1].reg0 # <<>>
    /\ canon[tinv[1].date] # <<>>

\* C15: when two transform runs of one family for different dates interleave
\* their reads and writes of the register, no ID is given to two routes,
\* neither by the two runs nor in the canonical partitions, and every ID of a
\* run that wrote the register is still in the register.
C15_ParallelIdsUnique ==
    /\ \A p, q \in TProcs :
          (p # q /\ Registered(p) /\ Registered(q)) =>
              SeqRange(tinv[p].ids) \cap SeqRange(tinv[q].ids) = {}
    /\ \A a, b \in EmittedRows(canon) :
          a # b => canon[a[1]][a[2]].id # canon[b[1]][b[2]].id
    /\ \A p \in TProcs :
          Registered(p) => SeqRange(tinv[p].ids) \subseteq SeqRange(register)

\* the sum of the fractions q[i].dist over one denominator: numerator
SumNum(q) == SumSeq([i \in 1..Len(q) |-> q[i].dist.num])

SameDen(q) == \A i \in 1..Len(q) : q[i].dist.den = q[1].dist.den /\ q[1].dist.den > 0

\* C16: the children C1..Ck the split makes of a row R start at R's start, end
\* at R's end, follow one another without gap, and their durations and
\* distances add up to R's duration and distance.
C16_SplitConserves ==
    (fout.done /\ Len(fout.rows) >= 1) =>
        LET c == fout.rows
            k == Len(fout.rows)
        IN  /\ c[1].start = fin.start
            /\ c[k].end = fin.end
            /\ \A i \in 1..(k - 1) : c[i + 1].start = c[i].end
            /\ SumSeq([i \in 1..k |-> c[i].end - c[i].start]) = fin.end - fin.start
            /\ SameDen(c)
            /\ SumNum(c) = fin.dist * c[1].dist.den

\* a row was split into three children of different durations
C16_Witness ==
    /\ fout.done
    /\ Len(fout.rows) = 3
    /\ fout.rows[1].end - fout.rows[1].start # fout.rows[2].end - fout.rows[2].start

\* C17: a row longer than maxDistance becomes ceil(distance / avgDistance)
\* children, and a row not longer than maxDistance stays one row with its
\* distance and timestamps unchanged.
C17_SplitCount ==
    fout.done =>
        IF fin.dist > fin.max
        THEN Len(fout.rows) = (fin.dist + fin.avg - 1) \div fin.avg
        ELSE /\ Len(fout.rows) = 1
             /\ fout.rows[1].start = fin.start
             /\ fout.rows[1].end = fin.end
             /\ fout.rows[1].dist.num = fin.dist * fout.rows[1].dist.den

\* C18: the distance ceiling keeps every row and its timestamps, leaves a
\* distance that is at most seconds / 3600 x maxPerHour as it is, and
\* replaces a greater one by exactly that ceiling.
C18_DistanceCeiling ==
    fout.done =>
        /\ Len(fout.rows) = Len(fin.rows)
        /\ \A i \in 1..Len(fin.rows) :
              LET r == fin.rows[i]
                  o == fout.rows[i]
                  reach == (r.end - r.start) * fin.max_distance_per_hour
              IN  /\ o.start = r.start /\ o.end = r.end
                  /\ o.dist.den > 0
                  /\ IF r.dist * 3600 <= reach
                     THEN o.dist.num = r.dist * o.dist.den
                     ELSE o.dist.num * 3600 = reach * o.dist.den

\* 30 km in 3600 s at 25 km/h came out as 25 km, next to a row below
\* its ceiling
C18_Witness ==
    /\ fout.done
    /\ fin.max_distance_per_hour = 25
    /\ Len(fin.rows) = 2
    /\ fin.rows[1] = [dist |-> 30, start |-> 0, end |-> 3600]
    /\ fout.rows[1].dist.num = 25 * fout.rows[1].dist.den
    /\ fin.rows[2] = [dist |-> 10, start |-> 0, end |-> 1800]
    /\ fout.rows[2].dist = [num |-> 10, den |-> 1]

\* the invocation of p went through the address check
Checked(p) == tpc[p] = "done" \/ (tpc[p] = "failed" /\ tinv[p].why = "address")

\* a row of the invocation of p has no address and a device not in the list
HasUnresolved(p) ==
    \E i \in 1..Len(tinv[p].rows) :
        tinv[p].amap[tinv[p].rows[i]] = Null /\ tinv[p].rows[i] \notin tinv[p].known

\* the devices of the rows of q, in order
GpsOf(q) == [i \in 1..Len(q) |-> q[i].gps]

HasAddress(p, g) == tinv[p].amap[g] # Null

\* C19 as stated: a row without address whose device is not in the
\* known-unassigned list fails the stage and leaves the canonical partitions
\* as they were; otherwise the partition is written without any row of a
\* known-unassigned device and with an address in every row.
C19_ListedDevicesDropped ==
    Checked(1) =>
        IF HasUnresolved(1)
        THEN tpc[1] = "failed" /\ canon = tinv[1].canon0
        ELSE /\ tpc[1] = "done"
             /\ tinv[1].date \in DOMAIN canon
             /\ \A i \in 1..Len(canon[tinv[1].date]) :
                   /\ canon[tinv[1].date][i].gps \notin tinv[1].known
                   /\ canon[tinv[1].date][i].addr # Null

\* C19: a row without address whose device is not in the known-unassigned
\* list fails the stage and leaves the canonical partitions as they were;
\* otherwise the partition is written with exactly the rows that have an
\* address, in order: rows without address (all of listed devices) are
\* dropped, rows of listed devices that have an address are kept.
C19_AddressCheck ==
    Checked(1) =>
        IF HasUnresolved(1)
        THEN tpc[1] = "failed" /\ canon = tinv[1].canon0
        ELSE /\ tpc[1] = "done"
             /\ tinv[1].date \in DOMAIN canon
             /\ LET WithAddr(g) == HasAddress(1, g)
                IN  GpsOf(canon[tinv[1].date]) = SelectSeq(tinv[1].rows, WithAddr)
             /\ \A i \in 1..Len(canon[tinv[1].date]) :
                   /\ canon[tinv[1].date][i].addr # Null
                   /\ canon[tinv[1].date][i].addr = tinv[1].amap[canon[tinv[1].date][i].gps]
             /\ \A d \in DOMAIN tinv[1].canon0 :
                   d # tinv[1].date => canon[d] = tinv[1].canon0[d]

\* a partition was written that keeps the row of a listed device with an
\* address and drops the row of a listed device without one
C19_Witness ==
    /\ tpc[1] = "done"
    /\ tinv[1].rows = <<"g1", "g2">>
    /\ tinv[1].known = {"g1", "g2"}
    /\ tinv[1].amap["g1"] # Null
    /\ tinv[1].amap["g2"] = Null
    /\ GpsOf(canon[tinv[1].date]) = <<"g1">>

ScenarioCredits ==
    /\ Len(fin) = 2
    /\ fin[1] = [prom |-> 5, acum |-> 10, cumplidos |-> 0, cantidad |-> 1, fecha |-> 1]
    /\ fin[2] = [prom |-> 20, acum |-> 50, cumplidos |-> 0, cantidad |-> 1, fecha |-> 2]

\* C21 as stated: the credits {5, 10} and {20, 50} score 1000 and 400 and
\* their weighted mean is 600.
C21_ScenarioScores ==
    (fout.done /\ pipeline = "score" /\ ScenarioCredits) =>
        /\ fout.rows = <<2 * 1000, 2 * 400>>
        /\ fout.W.num = 2 * 600 * fout.W.den

\* C21: a credit without bonus scores the mean of the two table values of its
\* delays (average delay 5 -> 1000, 7 -> 800, 20 -> 600; cumulative delay
\* 10 -> 1000, 50 -> 400), so the credits {5, 10} and {20, 50} score 1000 and
\* 500 and their triangular weighted mean is (1/3) 1000 + (2/3) 500 = 2000/3.
C21_PerCreditScores ==
    (fout.done /\ pipeline = "score") =>
        /\ \A i \in 1..Len(fin) :
              fin[i].cumplidos # fin[i].cantidad =>
                  fout.rows[i] =
                      (CASE fin[i].prom = 5 -> 1000 [] fin[i].prom = 7 -> 800
                         [] fin[i].prom = 20 -> 600 [] OTHER -> 0)
                    + (CASE fin[i].acum = 10 -> 1000 [] fin[i].acum = 50 -> 400 [] OTHER -> 0)
        /\ ScenarioCredits =>
              /\ fout.rows = <<2 * 1000, 2 * 500>>
              /\ 3 * fout.W.num = 2 * 2000 * fout.W.den

\* the two credits of the scenario were scored
C21_Witness ==
    /\ fout.done
    /\ pipeline = "score"
    /\ ScenarioCredits
    /\ fout.rows[2] = 1000

\* C28: the aggregate W of a client weighs its credits 1..n (over their sum)
\* by ascending disbursement date, whatever the order the rows arrive in.
C28_WeightsFollowDates ==
    (fout.done /\ pipeline = "score" /\ Len(fin) >= 1) =>
        LET n == Len(fin)
            rank(i) == 1 + Cardinality({j \in 1..n : fin[j].fecha < fin[i].fecha})
        IN  fout.W.num * SumSeq([i \in 1..n |-> i])
              = fout.W.den * SumSeq([i \in 1..n |-> rank(i) * fout.rows[i]])

LastEntry(p) == inv[p].log[Len(inv[p].log)]

\* the last thing invocation p did was to wait for a receipt
Waited(p) ==
    /\ Started(p)
    /\ Len(inv[p].log) > 0
    /\ LastEntry(p).ev \in {"receipt", "noreceipt"}

\* C23: the wait for a receipt of the route and credit publishers ends in one
\* of three ways: the receipt is returned by the first query that yields it;
\* when the queries fail with "not found" the wait gives up after at most
\* MaxAttempts queries have failed so; any other error gives up at once; and
\* without an answer it gives up once the wait exceeds WaitTimeout.  Giving up
\* stops the batch.
C23_WaitGivesUpWithinMaxAttempts ==
    \A p \in Procs : (Waited(p) /\ inv[p].kind \in {"route", "credit"}) =>
        LET s == inv[p].script
            q == inv[p].queries
        IN  /\ LastEntry(p).ev = "receipt" =>
                  s.then = "receipt" /\ q = s.lead + 1
            /\ LastEntry(p).ev = "noreceipt" =>
                  /\ s.then # "receipt"
                  /\ s.then = "notfound" => q - s.lead <= MaxAttempts
                  /\ s.then = "error" => q = s.lead + 1
                  /\ s.then = "none" =>
                        /\ (q - 1) * PollInterval > WaitTimeout
                        /\ (q - 2) * PollInterval <= WaitTimeout
                  /\ inv[p].stop = "receipt"
                  /\ pc[p] \in {"tail", "done"}

(* --------------------------- checkpoint map ---------------------------- *)
\* the routes invocation p saw confirmed or found already minted
Accepted(p) ==
    {Entry(p, i).id : i \in {j \in Entries(p) : Entry(p, j).ev \in {"receipt", "benign"}}}

\* C24: when a route publisher invocation that entered its loop has ended,
\* however it ended, the checkpoint map in the object store holds every entry
\* the invocation read at its start and every route it saw confirmed or found
\* already minted; and no step ever removes an entry from the stored map.
C24_CheckpointPersisted ==
    /\ [](\A p \in Procs : (inv[p].kind = "route" /\ pc[p] = "done") =>
              (inv[p].marked0 \cup Accepted(p)) \subseteq s3map)
    /\ [][s3map \subseteq s3map']_s3map

\* a route publisher run saw a route confirmed, stopped for want of the next
\* receipt, and left the confirmed route in the stored map
C24_Witness ==
    /\ inv[1].kind = "route"
    /\ pc[1] = "done"
    /\ inv[1].stop = "receipt"
    /\ Accepted(1) \ inv[1].marked0 # {}
    /\ (inv[1].marked0 \cup Accepted(1)) \subseteq s3map

C27_ChildrenWithinMax ==
    (fout.done /\ pipeline = "split" /\ fin.dist > fin.max /\ fin.avg <= fin.max) =>
        \A i \in 1..Len(fout.rows) :
            fout.rows[i].dist.num <= fin.max * fout.rows[i].dist.den

(* ================= the row steps of the transform handler =============== *)
\* One raw row goes through the distance filter, the duration filter, the
\* distance ceiling, the split and the output formatting, under the
\* parameters of transformations_<dataset_type>.yaml.  Distances are in
\* kilometres, times in seconds, filter durations in minutes.
RowDistances == {10, 25, 30}
RowSeconds == {100, 300, 1800, 6000}
DistanceFilters == {[min |-> 0, max |-> 28], [min |-> 6, max |-> 28]}
DurationFilters == {[min |-> 2, max |-> 90]}
DistanceFixes == {[expected_max_per_hour |-> 36]}
SplitBigRoutes == {[avg_distance |-> 8, max_distance |-> 12]}

\* trans_params; has_fix and has_split say whether the optional keys
\* distance_fix and split_big_routes are present
TransParams ==
    [distance_filter : DistanceFilters, duration_filter : DurationFilters,
     has_fix : BOOLEAN, distance_fix : DistanceFixes,
     has_split : BOOLEAN, split_big_routes : SplitBigRoutes]

RowInputs ==
    {[row |-> [dist |-> d, start |-> 0, end |-> l], params |-> q] :
        d \in RowDistances, l \in RowSeconds, q \in TransParams}

\* filter_by_distance_range: strictly above min_dist, at most max_dist when a
\* max_dist is given
filter_by_distance_range(df, min_dist, max_dist) ==
    LET above == SelectSeq(df, LAMBDA r : r.dist > min_dist)
    IN  IF max_dist # 0 THEN SelectSeq(above, LAMBDA r : r.dist <= max_dist)
        ELSE above

\* filter_by_duration_range: durationMinutes strictly above min_dur, at most
\* max_dur when a max_dur is given
filter_by_duration_range(df, min_dur, max_dur) ==
    LET above == SelectSeq(df, LAMBDA r :
                    durationMinutes(r).num > min_dur * durationMinutes(r).den)
    IN  IF max_dur # 0
        THEN SelectSeq(above, LAMBDA r :
                    durationMinutes(r).num <= max_dur * durationMinutes(r).den)
        ELSE above

\* a dataframe the distance ceiling was not applied to
Unfixed(df) ==
    [i \in 1..Len(df) |->
        [start |-> df[i].start, end |-> df[i].end,
         dist |-> [num |-> df[i].dist, den |-> 1]]]

\* apply_split_routes on one row whose distance is the fraction row.dist,
\* for one draw of the duration variations
apply_split_routes(row, avg_distance, max_distance, duration_variations) ==
    LET whole == [dist |-> row.dist.num, start |-> row.start, end |-> row.end]
        children == expand_routes_based_on_real_routes(whole, duration_variations)
    IN  [i \in 1..Len(children) |->
            [start |-> children[i].start, end |-> children[i].end,
             dist |-> [num |-> children[i].dist.num,
                       den |-> children[i].dist.den * row.dist.den]]]

\* the number of routes apply_split_routes makes of the row
real_routes(row, avg_distance, max_distance) ==
    adjust_route_distribution(row.dist.num, max_distance * row.dist.den,
                              avg_distance * row.dist.den)

\* Series.round(0): to the nearest integer, a half to the even neighbour
round_half_even(f) ==
    LET q == f.num \div f.den
        twice == 2 * (f.num % f.den)
    IN  IF twice < f.den THEN q
        ELSE IF twice > f.den THEN q + 1
        ELSE IF q % 2 = 0 THEN q ELSE q + 1

\* format_output_df: timestamps in whole seconds, f_distancia rounded to an
\* integer, columns renamed
format_output_df(df) ==
    [i \in 1..Len(df) |->
        [timestampStart |-> df[i].start, timestampEnd |-> df[i].end,
         measuredDistance |-> round_half_even(df[i].dist)]]

\* handler: the filters, the ceiling, the split and the formatting of fin.row
ProcessRows ==
    LET q == fin.params
        filtered == filter_by_duration_range(
                        filter_by_distance_range(<<fin.row>>, q.distance_filter.min,
                                                 q.distance_filter.max),
                        q.duration_filter.min, q.duration_filter.max)
        fixed == IF q.has_fix
                 THEN fix_distance_by_max_per_hour(
                          filtered, q.distance_fix.expected_max_per_hour)
                 ELSE Unfixed(filtered)
    IN  /\ pipeline = "rows"
        /\ ~fout.done
        /\ IF fixed = <<>>
           THEN fout' = [done |-> TRUE, rows |-> <<>>]
           ELSE IF ~q.has_split
           THEN fout' = [done |-> TRUE, rows |-> format_output_df(fixed)]
           ELSE \E vs \in SeqsUpTo(Variations, 3) :
                   /\ Len(vs) = real_routes(fixed[1], q.split_big_routes.avg_distance,
                                            q.split_big_routes.max_distance)
                   /\ fout' = [done |-> TRUE,
                               rows |-> format_output_df(
                                   apply_split_routes(fixed[1],
                                       q.split_big_routes.avg_distance,
                                       q.split_big_routes.max_distance, vs))]
        /\ UNCHANGED <<pubVars, pipeline, register, canon, tpc, tinv, fin>>

InitRows ==
    /\ InitState
    /\ pipeline = "rows"
    /\ register = <<>>
    /\ canon = <<>>
    /\ tpc = <<>>
    /\ tinv = <<>>
    /\ fin \in RowInputs
    /\ fout = NoOutput

NextRows == ProcessRows

SpecRows == InitRows /\ [][NextRows]_vars

\* C26: every row written to the canonical partition ends after it starts,
\* has its distance within the bounds of the distance filter and its duration
\* within the bounds of the duration filter, also when the distance ceiling
\* lowered its distance, when it is a child of a split row, and after its
\* distance was rounded.
C26_CanonicalRowsWithinBounds ==
    (fout.done /\ pipeline = "rows") =>
        \A i \in 1..Len(fout.rows) :
            LET r == fout.rows[i]
                q == fin.params
            IN  /\ r.timestampEnd > r.timestampStart
                /\ r.measuredDistance >= q.distance_filter.min
                /\ r.measuredDistance <= q.distance_filter.max
                /\ r.timestampEnd - r.timestampStart >= q.duration_filter.min * 60
                /\ r.timestampEnd - r.timestampStart <= q.duration_filter.max * 60

(* ------------------------- all_success and marks ------------------------ *)
\* the records of the batch of invocation p
Batch(p) == {inv[p].recs[n].id : n \in 1..Len(inv[p].recs)}

\* publish_to_celo of invocation p has returned or raised
Returned(p) == pc[p] \in {"tail", "done"}

\* C30: when publish_to_celo returns all_success = True, every record of its
\* batch is marked as published: a route is in the checkpoint map the function
\* returns (and in the stored map once the handler has written it), a credit
\* or payment has its published flag set.
C30_AllSuccessMeansAllMarked ==
    \A p \in Procs : (Returned(p) /\ inv[p].all_success) =>
        /\ inv[p].kind = "route" =>
              /\ Batch(p) \subseteq inv[p].published_routes
              /\ pc[p] = "done" => Batch(p) \subseteq s3map
        /\ inv[p].kind \in {"credit", "payment"} =>
              Batch(p) \subseteq Marked(inv[p].kind)

\* a payment run returned all_success = True after one payment was refused
\* as already recorded and another was confirmed
C30_Witness ==
    /\ inv[1].kind = "payment"
    /\ pc[1] = "tail"
    /\ inv[1].all_success
    /\ \E i, j \in Entries(1) :
          Entry(1, i).ev = "benign" /\ Entry(1, j).ev = "receipt"
    /\ Batch(1) \subseteq payFlag

(* ========================= eventual publication ========================= *)
\* estimate_gas raises a revert that does not end the batch for good: the
\* record is on the chain already, or the payment exceeds what is left to pay
EstimateReverts(p, msg) ==
    /\ Ready(p)
    /\ ErrorClass(Frame(p).kind, Frame(p).attempt, msg) # "fatal"
    /\ EstimateFails(p, msg)

\* send_raw_transaction raises because the node already holds the transaction
\* an interrupted run left behind
SendRefused(p) ==
    /\ Ready(p)
    /\ ~NodeAccepts(TxOf(Frame(p)))
    /\ SendFails(p)

\* the steps of an invocation when nothing fails but the wait for a receipt;
\* the node answers at once or after the longest of the waits
StepLive(p) ==
    \/ LoopExit(p)
    \/ SkipPublished(p)
    \/ BudgetStop(p)
    \/ \E msg \in {MSG_MINTED, MSG_REVERT, MSG_PANIC} : EstimateReverts(p, msg)
    \/ SendRefused(p)
    \/ SendAccepted(p)
    \/ \E l \in {0, MaxOf(Leads)}, t \in {"receipt", "notfound", "none"} :
          WaitReceipt(p, [lead |-> l, then |-> t])
    \/ HandlerTail(p)

\* every invocation is given the same budget
NextLive ==
    \/ \E k \in Kinds, T \in {MaxOf(Timeouts)} : Start(1, k, T)
    \/ StepLive(1)
    \/ Mine

\* every publisher is invoked again and again, a started invocation runs on,
\* and the node mines what it holds
Fairness ==
    /\ \A k \in Kinds : SF_vars(\E T \in {MaxOf(Timeouts)} : Start(1, k, T))
    /\ WF_vars(StepLive(1))
    /\ WF_vars(Mine)

SpecLive == Init /\ [][NextLive]_vars /\ Fairness

\* every record of the pipeline is marked as published
AllMarked == \A k \in KindsOf(pipeline) : Ids(k) \subseteq Marked(k)

\* C29: when invocations do not overlap, the node mines what it is sent and
\* no error occurs that the publishers do not recover from, invoking the
\* publishers again and again leads to a state from which every record stays
\* marked as published, whatever runs were cut short by a missing receipt or
\* by the budget; and a run started when every record of its kind is marked
\* hands nothing to the node and ends in success.
C29_EventualPublication ==
    /\ <>[]AllMarked
    /\ [](\A p \in Procs :
            (Started(p) /\ Ids(inv[p].kind) \subseteq inv[p].marked0) =>
                /\ \A i \in Entries(p) : ~IsCall(Entry(p, i))
                /\ pc[p] = "done" => inv[p].outcome = "success")

\* every record is marked although the run before this one was cut short
C29_Witness ==
    /\ AllMarked
    /\ pc[1] = "loop"
    /\ ~inv[1].prevOk
    /\ inv[1].marked0 # Ids(inv[1].kind)
    /\ \E i \in Entries(1) : Entry(1, i).ev = "benign"

====
